---- MODULE Spec2Model ----
(***************************************************************************)
(* A model of the ZkVM transaction verifier: src/src/vm.rs (the engine),   *)
(* src/src/types.rs (stack items and their downcasts) and                  *)
(* src/src/errors.rs (the closed error enumeration).                       *)
(*                                                                         *)
(* A byte is a number in 0..255, a byte string a sequence of bytes.  A     *)
(* borrowed slice &'tx [u8] is modelled by its contents: the transaction   *)
(* buffer is never written during a verification.                          *)
(*                                                                         *)
(* A Result<T, VMError> is a record whose field r is "Ok", the name of a   *)
(* VMError variant, or "Panic" when the code reaches unimplemented!().     *)
(* The `?` operator returns the first r that is not "Ok" together with the *)
(* VM state as it is at that point.                                        *)
(***************************************************************************)
EXTENDS Integers, Sequences, FiniteSets, TLC

VARIABLES
    version,               \* VM.version
    mintime,               \* VM.mintime
    maxtime,               \* VM.maxtime
    program,               \* VM.program: the transaction's program bytes
    extension,             \* VM.extension
    unique,                \* VM.unique
    stack,                 \* VM.stack, bottom first (a Vec: push/pop at the end)
    current_run,           \* VM.current_run: [program, offset]
    run_stack,             \* VM.run_stack
    txlog,                 \* VM.txlog
    variable_commitments,  \* VM.variable_commitments (0-based handle i is entry i+1)
    pc,                    \* position of verify_tx: "run" (inside vm.run()) or "done"
    step_result,           \* what the last call of step() returned ("None" before the first)
    result,                \* what verify_tx returned ("None" until it returns)
    instr,                 \* the instruction parsed by the last step ([op |-> "None"] if none)
    prev,                  \* the VM state at the start of the last step
    steps,                 \* the number of instructions VM::step has parsed and dispatched
    handles,               \* the variables make_variable returned, with their commitments
    contract_in,           \* the contract given to encode_output
    wire,                  \* the bytes given to decode_output
    decoded                \* what decode_output returned

vars == <<version, mintime, maxtime, program, extension, unique, stack, current_run,
          run_stack, txlog, variable_commitments, pc, step_result, result, instr, prev,
          steps, handles, contract_in, wire, decoded>>

-----------------------------------------------------------------------------
(* Program constants *)

CURRENT_VERSION == 1

DATA_TYPE == 0

VALUE_TYPE == 1

\* Length of a compressed point, a txid and a UTXO id: [u8; 32].
PointLen == 32

\* The variants of VMError (errors.rs), with the three that types.rs returns
\* from its downcasts.
VMErrors ==
    {"PointOperationFailed", "InvalidPoint", "FormatError", "ExtensionsNotAllowed",
     "TypeNotCopyable", "TypeNotData", "TypeNotContract", "TypeNotValue",
     "TypeNotWideValue", "StackUnderflow", "StackNotClean", "NotUniqueTxid",
     "TypeNotPortable", "TypeNotVariable", "TypeNotExpression"}

-----------------------------------------------------------------------------
(* Sequence helpers *)

\* s[from..], 0-based like a Rust slice
SliceFrom(s, from) == SubSeq(s, from + 1, Len(s))

\* s[from..to], 0-based, half open
Slice(s, from, to) == SubSeq(s, from + 1, to)

\* Vec::remove(idx), 0-based
VecRemove(s, idx) == SubSeq(s, 1, idx) \o SubSeq(s, idx + 2, Len(s))

-----------------------------------------------------------------------------
(* Binary codec (crate::encoding).  Readers return [r, v, rest]. *)

\* The value of four little-endian bytes.  A usize read from the wire is
\* only ever compared with a buffer length: the values from 2^31 on, which
\* exceed every buffer length here, are all represented by 2^31 - 1.
LE32Value(b) ==
    IF b[4] >= 128
    THEN 2147483647
    ELSE b[1] + 256 * b[2] + 65536 * b[3] + 16777216 * b[4]

read_u8(bytes) ==
    IF Len(bytes) < 1
    THEN [r |-> "FormatError", v |-> 0, rest |-> <<>>]
    ELSE [r |-> "Ok", v |-> bytes[1], rest |-> SliceFrom(bytes, 1)]

read_usize(bytes) ==
    IF Len(bytes) < 4
    THEN [r |-> "FormatError", v |-> 0, rest |-> <<>>]
    ELSE [r |-> "Ok", v |-> LE32Value(bytes), rest |-> SliceFrom(bytes, 4)]

read_bytes(len, bytes) ==
    IF len > Len(bytes)
    THEN [r |-> "FormatError", v |-> <<>>, rest |-> <<>>]
    ELSE [r |-> "Ok", v |-> Slice(bytes, 0, len), rest |-> SliceFrom(bytes, len)]

read_u8x32(bytes) == read_bytes(PointLen, bytes)

read_point(bytes) == read_u8x32(bytes)

write_u8(x) == <<x % 256>>

write_u32(x) ==
    <<x % 256, (x \div 256) % 256, (x \div 65536) % 256, (x \div 16777216) % 256>>

write_bytes(bytes) == bytes

write_point(p) == p

-----------------------------------------------------------------------------
(* Stack items (types.rs) *)

DataItem(bytes) == [type |-> "Data", bytes |-> bytes]

ContractItem(predicate, payload) ==
    [type |-> "Contract", predicate |-> predicate, payload |-> payload]

ValueItem(qty, flv) == [type |-> "Value", qty |-> qty, flv |-> flv]

WideValueItem(q, f) == [type |-> "WideValue", r1cs_qty |-> q, r1cs_flv |-> f]

VariableItem(index) == [type |-> "Variable", index |-> index]

ExpressionItem(terms) == [type |-> "Expression", terms |-> terms]

ConstraintItem(kind, args) == [type |-> "Constraint", kind |-> kind, args |-> args]

\* Item::to_data
to_data(item) ==
    IF item.type = "Data"
    THEN [r |-> "Ok", v |-> item]
    ELSE [r |-> "TypeNotData", v |-> item]

\* Item::to_variable
to_variable(item) ==
    IF item.type = "Variable"
    THEN [r |-> "Ok", v |-> item]
    ELSE [r |-> "TypeNotVariable", v |-> item]

\* Data::ensure_length
ensure_length(data, len) ==
    IF Len(data.bytes) # len
    THEN [r |-> "FormatError", v |-> data]
    ELSE [r |-> "Ok", v |-> data]

\* Data::to_u8x32
to_u8x32(data) ==
    LET e == ensure_length(data, PointLen)
    IN  IF e.r # "Ok" THEN [r |-> e.r, v |-> <<>>] ELSE [r |-> "Ok", v |-> e.v.bytes]

\* Data::to_point
to_point(data) == to_u8x32(data)

-----------------------------------------------------------------------------
(* Instruction decoder (crate::ops): parse(bytes) -> Option<(Instruction, size)> *)

\* The opcode of a name is its position here, counted from 0; the order is
\* that of the Instruction variants in VM::step.
OpcodeNames ==
    <<"Push", "Drop", "Dup", "Roll", "Const", "Var", "Alloc", "Mintime", "Maxtime",
      "Neg", "Add", "Mul", "Eq", "Range", "And", "Or", "Verify", "Blind", "Reblind",
      "Unblind", "Issue", "Borrow", "Retire", "Qty", "Flavor", "Cloak", "Import",
      "Export", "Input", "Output", "Contract", "Nonce", "Log", "Signtx", "Call",
      "Left", "Right", "Delegate">>

Opcode(name) == (CHOOSE i \in 1..Len(OpcodeNames) : OpcodeNames[i] = name) - 1

Instr(op, a, b) == [op |-> op, a |-> a, b |-> b]

NoInstr == Instr("None", 0, 0)

ParseNone == [ok |-> FALSE, instr |-> NoInstr, size |-> 0]

ParseSome(i, size) == [ok |-> TRUE, instr |-> i, size |-> size]

parse(bytes) ==
    IF Len(bytes) = 0 THEN ParseNone
    ELSE
    LET byte == bytes[1]
        immdata == SliceFrom(bytes, 1)
    IN  IF byte >= Len(OpcodeNames) THEN ParseSome(Instr("Ext", byte, 0), 1)
        ELSE
        LET op == OpcodeNames[byte + 1]
            n1 == read_usize(immdata)
            n2 == read_usize(n1.rest)
            b1 == read_u8(immdata)
        IN  CASE op = "Push" ->
                    IF n1.r # "Ok" \/ n1.v > Len(n1.rest) THEN ParseNone
                    ELSE ParseSome(Instr(op, n1.v, 0), 1 + 4 + n1.v)
              [] op \in {"Dup", "Roll", "Output", "Contract"} ->
                    IF n1.r # "Ok" THEN ParseNone
                    ELSE ParseSome(Instr(op, n1.v, 0), 1 + 4)
              [] op = "Range" ->
                    IF b1.r # "Ok" THEN ParseNone
                    ELSE ParseSome(Instr(op, b1.v, 0), 1 + 1)
              [] op = "Cloak" ->
                    IF n1.r # "Ok" \/ n2.r # "Ok" THEN ParseNone
                    ELSE ParseSome(Instr(op, n1.v, n2.v), 1 + 4 + 4)
              [] OTHER -> ParseSome(Instr(op, 0, 0), 1)

-----------------------------------------------------------------------------
(* The VM's handlers.  Each takes the VM state as a record vm and returns  *)
(* [r, vm]: the Result and the VM state the call leaves behind.            *)

NoItem == [type |-> "None"]

Ret(r, vm) == [r |-> r, vm |-> vm]

\* VM::pop_item
pop_item(vm) ==
    IF Len(vm.stack) = 0
    THEN [r |-> "StackUnderflow", item |-> NoItem, vm |-> vm]
    ELSE [r |-> "Ok", item |-> vm.stack[Len(vm.stack)],
          vm |-> [vm EXCEPT !.stack = SubSeq(vm.stack, 1, Len(vm.stack) - 1)]]

\* VM::push_item
push_item(vm, item) == [vm EXCEPT !.stack = Append(vm.stack, item)]

\* make_variable that hands out the index without adding the entry
make_variable_without_push(vm, commitment) ==
    [var |-> [index |-> Len(vm.variable_commitments)], vm |-> vm]

\* make_variable that takes the index after the push
make_variable_index_after_push(vm, commitment) ==
    [var |-> [index |-> Len(vm.variable_commitments) + 1],
     vm |-> [vm EXCEPT !.variable_commitments =
                Append(vm.variable_commitments,
                       [state |-> "Detached", point |-> commitment])]]

\* VM::make_variable: [var, vm]
make_variable(vm, commitment) ==
    LET index == Len(vm.variable_commitments)
    IN  [var |-> [index |-> index],
         vm |-> [vm EXCEPT !.variable_commitments =
                    Append(vm.variable_commitments,
                           [state |-> "Detached", point |-> commitment])]]

\* VM::get_variable_commitment; the subscript panics out of range
get_variable_commitment(vm, var) ==
    IF var.index < Len(vm.variable_commitments)
    THEN [r |-> "Ok", v |-> vm.variable_commitments[var.index + 1].point]
    ELSE [r |-> "Panic", v |-> <<>>]

\* pushdata that takes the len bytes that follow the offset
pushdata_from_offset(vm, len) ==
    LET offset == vm.current_run.offset
    IN  IF offset + len > Len(vm.current_run.program)
        THEN Ret("Panic", vm)
        ELSE Ret("Ok", [vm EXCEPT !.stack =
                 Append(vm.stack,
                        DataItem(Slice(vm.current_run.program, offset, offset + len)))])

\* VM::pushdata; a range outside the program panics
pushdata(vm, len) ==
    LET offset == vm.current_run.offset
    IN  IF offset - len < 0 \/ offset > Len(vm.current_run.program)
        THEN Ret("Panic", vm)
        ELSE Ret("Ok", [vm EXCEPT !.stack =
                 Append(vm.stack,
                        DataItem(Slice(vm.current_run.program, offset - len, offset)))])

\* The variants of Item that drop and dup accept
Copyable == {"Data", "Variable", "Expression", "Constraint"}

\* drop with an empty stack taken for nothing to do
drop_ignores_empty(vm) ==
    LET p == pop_item(vm)
    IN  IF p.r # "Ok" THEN Ret("Ok", p.vm)
        ELSE IF p.item.type \in Copyable THEN Ret("Ok", p.vm)
        ELSE Ret("TypeNotCopyable", p.vm)

\* drop that looks at the top item before it pops it
drop_checks_before_pop(vm) ==
    IF Len(vm.stack) = 0 THEN Ret("StackUnderflow", vm)
    ELSE IF vm.stack[Len(vm.stack)].type \in Copyable THEN Ret("Ok", pop_item(vm).vm)
    ELSE Ret("TypeNotCopyable", vm)

\* drop that discards an item of any variant
drop_discards_any(vm) ==
    LET p == pop_item(vm)
    IN  IF p.r # "Ok" THEN Ret(p.r, p.vm) ELSE Ret("Ok", p.vm)

\* VM::drop
drop(vm) ==
    LET p == pop_item(vm)
    IN  IF p.r # "Ok" THEN Ret(p.r, p.vm)
        ELSE IF p.item.type \in Copyable THEN Ret("Ok", p.vm)
        ELSE Ret("TypeNotCopyable", p.vm)

\* dup with the bound tested by > : at i = stack.len() the index
\* stack.len() - i - 1 underflows and the subscript panics
dup_bound_off_by_one(vm, i) ==
    IF i > Len(vm.stack) THEN Ret("StackUnderflow", vm)
    ELSE IF i = Len(vm.stack) THEN Ret("Panic", vm)
    ELSE IF vm.stack[Len(vm.stack) - i].type \in Copyable
    THEN Ret("Ok", push_item(vm, vm.stack[Len(vm.stack) - i]))
    ELSE Ret("TypeNotCopyable", vm)

\* dup that clones whatever variant it finds
dup_copies_any(vm, i) ==
    IF i >= Len(vm.stack) THEN Ret("StackUnderflow", vm)
    ELSE Ret("Ok", push_item(vm, vm.stack[Len(vm.stack) - i]))

\* dup that counts the index from the bottom of the stack
dup_from_bottom(vm, i) ==
    IF i >= Len(vm.stack) THEN Ret("StackUnderflow", vm)
    ELSE
    LET item == vm.stack[i + 1]
    IN  IF item.type \in Copyable
        THEN Ret("Ok", push_item(vm, item))
        ELSE Ret("TypeNotCopyable", vm)

\* VM::dup
dup(vm, i) ==
    IF i >= Len(vm.stack) THEN Ret("StackUnderflow", vm)
    ELSE
    LET item_idx == Len(vm.stack) - i - 1
        item == vm.stack[item_idx + 1]
    IN  IF item.type \in Copyable
        THEN Ret("Ok", push_item(vm, item))
        ELSE Ret("TypeNotCopyable", vm)

\* roll that counts the index from the bottom of the stack
roll_from_bottom(vm, i) ==
    IF i >= Len(vm.stack) THEN Ret("StackUnderflow", vm)
    ELSE
    LET item == vm.stack[i + 1]
        removed == [vm EXCEPT !.stack = VecRemove(vm.stack, i)]
    IN  Ret("Ok", push_item(removed, item))

\* VM::roll
roll(vm, i) ==
    IF i >= Len(vm.stack) THEN Ret("StackUnderflow", vm)
    ELSE
    LET idx == Len(vm.stack) - i - 1
        item == vm.stack[idx + 1]
        removed == [vm EXCEPT !.stack = VecRemove(vm.stack, idx)]
    IN  Ret("Ok", push_item(removed, item))

\* ext that, when extensions are allowed, pushes the opcode as data
ext_pushes_opcode(vm, opcode) ==
    IF vm.extension THEN Ret("Ok", push_item(vm, DataItem(<<opcode>>)))
    ELSE Ret("ExtensionsNotAllowed", vm)

\* VM::ext
ext(vm, opcode) ==
    IF vm.extension THEN Ret("Ok", vm) ELSE Ret("ExtensionsNotAllowed", vm)

-----------------------------------------------------------------------------
(* Inputs and outputs *)

\* UTXO::from_output: the transcript hash of (txid, output), kept as the
\* labelled pair it binds (the hash is taken to be collision-free).
from_output(output, txid) == [txid |-> txid, output |-> output]

PortableData(bytes) == [type |-> "Data", bytes |-> bytes]

PortableValue(qty, flv) == [type |-> "Value", qty |-> qty, flv |-> flv]

\* What decode_output and its loop return: [r, payload, vm]
Items(r, payload, vm) == [r |-> r, payload |-> payload, vm |-> vm]

\* decode_value that makes the variable of the flavor first
decode_value_flavor_first(vm, payload, qty, flv) ==
    LET f == make_variable(vm, flv)
    IN  LET q == make_variable(f.vm, qty)
        IN  [payload |-> Append(payload, PortableValue(q.var, f.var)), vm |-> q.vm]

\* A Value item of the payload: the two points become two fresh variables,
\* the quantity first.  [payload, vm]
decode_value(vm, payload, qty, flv) ==
    LET q == make_variable(vm, qty)
    IN  LET f == make_variable(q.vm, flv)
        IN  [payload |-> Append(payload, PortableValue(q.var, f.var)), vm |-> f.vm]

\* The loop of VM::decode_output: k items still to read from items.
RECURSIVE decode_items(_, _, _, _)
decode_item_data(vm, k, payload, len) ==
    IF len.r # "Ok" THEN Items(len.r, payload, vm)
    ELSE LET bytes == read_bytes(len.v, len.rest)
         IN  IF bytes.r # "Ok" THEN Items(bytes.r, payload, vm)
             ELSE decode_items(vm, k - 1, bytes.rest, Append(payload, PortableData(bytes.v)))

decode_item_value(vm, k, payload, qty) ==
    IF qty.r # "Ok" THEN Items(qty.r, payload, vm)
    ELSE LET flv == read_point(qty.rest)
         IN  IF flv.r # "Ok" THEN Items(flv.r, payload, vm)
             ELSE LET made == decode_value(vm, payload, qty.v, flv.v)
                  IN  decode_items(made.vm, k - 1, flv.rest, made.payload)

decode_item(vm, k, payload, t) ==
    IF t.r # "Ok" THEN Items(t.r, payload, vm)
    ELSE IF t.v = DATA_TYPE THEN decode_item_data(vm, k, payload, read_usize(t.rest))
    ELSE IF t.v = VALUE_TYPE THEN decode_item_value(vm, k, payload, read_point(t.rest))
    ELSE Items("FormatError", payload, vm)

decode_items(vm, k, items, payload) ==
    IF k = 0 THEN Items("Ok", payload, vm)
    ELSE decode_item(vm, k, payload, read_u8(items))

NoContract == [type |-> "None"]

\* What decode_output returns: [r, contract, vm]
Decoded(r, contract, vm) == [r |-> r, contract |-> contract, vm |-> vm]

decode_output_payload(predicate, items) ==
    IF items.r # "Ok" THEN Decoded(items.r, NoContract, items.vm)
    ELSE Decoded("Ok", ContractItem(predicate, items.payload), items.vm)

\* decode_output_count that trusts the count
decode_output_count_unchecked(vm, predicate, k) ==
    IF k.r # "Ok" THEN Decoded(k.r, NoContract, vm)
    ELSE decode_output_payload(predicate, decode_items(vm, k.v, k.rest, <<>>))

\* VM::decode_output once the predicate is read: the count k, the sanity check
\* against the bytes that follow it, then the items
decode_output_count(vm, predicate, k) ==
    IF k.r # "Ok" THEN Decoded(k.r, NoContract, vm)
    ELSE IF k.v > Len(k.rest) THEN Decoded("FormatError", NoContract, vm)
    ELSE decode_output_payload(predicate, decode_items(vm, k.v, k.rest, <<>>))

\* VM::decode_output
decode_output(vm, output) ==
    LET predicate == read_point(output)
    IN  IF predicate.r # "Ok" THEN Decoded(predicate.r, NoContract, vm)
        ELSE decode_output_count(vm, predicate.v, read_usize(predicate.rest))

\* What decode_input returns: [r, contract, txid, utxo, vm]
DecodedInput(r, contract, txid, utxo, vm) ==
    [r |-> r, contract |-> contract, txid |-> txid, utxo |-> utxo, vm |-> vm]

decode_input_output(txid, output, c) ==
    IF c.r # "Ok" THEN DecodedInput(c.r, NoContract, <<>>, <<>>, c.vm)
    ELSE DecodedInput("Ok", c.contract, txid, from_output(output, txid), c.vm)

\* VM::decode_input
decode_input(vm, input) ==
    LET t == read_u8x32(input)
    IN  IF t.r # "Ok" THEN DecodedInput(t.r, NoContract, <<>>, <<>>, vm)
        ELSE decode_input_output(t.v, t.rest, decode_output(vm, t.rest))

\* Contract::output_size
RECURSIVE output_size_items(_)
output_size_items(payload) ==
    IF payload = <<>> THEN 0
    ELSE (IF Head(payload).type = "Data"
          THEN 1 + 4 + Len(Head(payload).bytes)
          ELSE 1 + 64) + output_size_items(Tail(payload))

output_size(contract) == 32 + 4 + output_size_items(contract.payload)

\* The loop of VM::encode_output: [r, bytes]
RECURSIVE encode_items(_, _)
\* encode_items that writes the flavor of a Value before its quantity
encode_items_flavor_first(vm, payload) ==
    IF payload = <<>> THEN [r |-> "Ok", bytes |-> <<>>]
    ELSE
    LET item == Head(payload)
        rest == encode_items(vm, Tail(payload))
        qty == get_variable_commitment(vm, item.qty)
        flv == get_variable_commitment(vm, item.flv)
    IN  IF item.type = "Data"
        THEN [r |-> rest.r,
              bytes |-> write_u8(DATA_TYPE) \o write_u32(Len(item.bytes))
                        \o write_bytes(item.bytes) \o rest.bytes]
        ELSE IF qty.r # "Ok" \/ flv.r # "Ok" THEN [r |-> "Panic", bytes |-> <<>>]
        ELSE [r |-> rest.r,
              bytes |-> write_u8(VALUE_TYPE) \o write_point(flv.v)
                        \o write_point(qty.v) \o rest.bytes]

encode_items(vm, payload) ==
    IF payload = <<>> THEN [r |-> "Ok", bytes |-> <<>>]
    ELSE
    LET item == Head(payload)
        rest == encode_items(vm, Tail(payload))
        qty == get_variable_commitment(vm, item.qty)
        flv == get_variable_commitment(vm, item.flv)
    IN  IF item.type = "Data"
        THEN [r |-> rest.r,
              bytes |-> write_u8(DATA_TYPE) \o write_u32(Len(item.bytes))
                        \o write_bytes(item.bytes) \o rest.bytes]
        ELSE IF qty.r # "Ok" \/ flv.r # "Ok" THEN [r |-> "Panic", bytes |-> <<>>]
        ELSE [r |-> rest.r,
              bytes |-> write_u8(VALUE_TYPE) \o write_point(qty.v)
                        \o write_point(flv.v) \o rest.bytes]

\* VM::encode_output: [r, bytes]
encode_output(vm, contract) ==
    LET items == encode_items(vm, contract.payload)
    IN  [r |-> items.r,
         bytes |-> write_point(contract.predicate)
                   \o write_u32(Len(contract.payload)) \o items.bytes]

-----------------------------------------------------------------------------
(* The handlers that touch the log *)

NonceEntry(predicate, time) == [type |-> "Nonce", predicate |-> predicate, maxtime |-> time]

InputEntry(utxo) == [type |-> "Input", utxo |-> utxo]

\* nonce that logs mintime
nonce_logs_mintime(vm) ==
    LET p == pop_item(vm)
        d == to_data(p.item)
        pt == to_point(d.v)
        contract == ContractItem(pt.v, <<>>)
        logged == [p.vm EXCEPT !.txlog = Append(p.vm.txlog, NonceEntry(pt.v, vm.mintime))]
        pushed == push_item(logged, contract)
    IN  IF p.r # "Ok" THEN Ret(p.r, p.vm)
        ELSE IF d.r # "Ok" THEN Ret(d.r, p.vm)
        ELSE IF pt.r # "Ok" THEN Ret(pt.r, p.vm)
        ELSE Ret("Ok", [pushed EXCEPT !.unique = TRUE])

\* nonce that does not set the unique flag
nonce_leaves_unique(vm) ==
    LET p == pop_item(vm)
        d == to_data(p.item)
        pt == to_point(d.v)
        contract == ContractItem(pt.v, <<>>)
        logged == [p.vm EXCEPT !.txlog = Append(p.vm.txlog, NonceEntry(pt.v, vm.maxtime))]
    IN  IF p.r # "Ok" THEN Ret(p.r, p.vm)
        ELSE IF d.r # "Ok" THEN Ret(d.r, p.vm)
        ELSE IF pt.r # "Ok" THEN Ret(pt.r, p.vm)
        ELSE Ret("Ok", push_item(logged, contract))

\* nonce that puts its entry in front of the log
nonce_logs_in_front(vm) ==
    LET p == pop_item(vm)
        d == to_data(p.item)
        pt == to_point(d.v)
        contract == ContractItem(pt.v, <<>>)
        logged == [p.vm EXCEPT !.txlog = <<NonceEntry(pt.v, vm.maxtime)>> \o p.vm.txlog]
        pushed == push_item(logged, contract)
    IN  IF p.r # "Ok" THEN Ret(p.r, p.vm)
        ELSE IF d.r # "Ok" THEN Ret(d.r, p.vm)
        ELSE IF pt.r # "Ok" THEN Ret(pt.r, p.vm)
        ELSE Ret("Ok", [pushed EXCEPT !.unique = TRUE])

\* VM::nonce
nonce(vm) ==
    LET p == pop_item(vm)
        d == to_data(p.item)
        pt == to_point(d.v)
        contract == ContractItem(pt.v, <<>>)
        logged == [p.vm EXCEPT !.txlog = Append(p.vm.txlog, NonceEntry(pt.v, vm.maxtime))]
        pushed == push_item(logged, contract)
    IN  IF p.r # "Ok" THEN Ret(p.r, p.vm)
        ELSE IF d.r # "Ok" THEN Ret(d.r, p.vm)
        ELSE IF pt.r # "Ok" THEN Ret(pt.r, p.vm)
        ELSE Ret("Ok", [pushed EXCEPT !.unique = TRUE])

\* VM::issue: the three pops, then unimplemented!()
issue(vm) ==
    LET p1 == pop_item(vm)
        d == to_data(p1.item)
        pt == to_point(d.v)
        p2 == pop_item(p1.vm)
        flv == to_variable(p2.item)
        p3 == pop_item(p2.vm)
        qty == to_variable(p3.item)
    IN  IF p1.r # "Ok" THEN Ret(p1.r, p1.vm)
        ELSE IF d.r # "Ok" THEN Ret(d.r, p1.vm)
        ELSE IF pt.r # "Ok" THEN Ret(pt.r, p1.vm)
        ELSE IF p2.r # "Ok" THEN Ret(p2.r, p2.vm)
        ELSE IF flv.r # "Ok" THEN Ret(flv.r, p2.vm)
        ELSE IF p3.r # "Ok" THEN Ret(p3.r, p3.vm)
        ELSE IF qty.r # "Ok" THEN Ret(qty.r, p3.vm)
        ELSE Ret("Panic", p3.vm)

\* input_decoded that sets unique whether or not the decoding succeeded
input_decoded_unique_early(dec) ==
    IF dec.r # "Ok" THEN Ret(dec.r, [dec.vm EXCEPT !.unique = TRUE])
    ELSE LET pushed == push_item(dec.vm, dec.contract)
         IN  Ret("Ok", [pushed EXCEPT !.txlog = Append(pushed.txlog, InputEntry(dec.utxo)),
                                      !.unique = TRUE])

\* VM::input, once the input is decoded
input_decoded(dec) ==
    IF dec.r # "Ok" THEN Ret(dec.r, dec.vm)
    ELSE LET pushed == push_item(dec.vm, dec.contract)
         IN  Ret("Ok", [pushed EXCEPT !.txlog = Append(pushed.txlog, InputEntry(dec.utxo)),
                                      !.unique = TRUE])

\* VM::input
input(vm) ==
    LET p == pop_item(vm)
    IN  IF p.r # "Ok" THEN Ret(p.r, p.vm)
        ELSE LET serialized_input == to_data(p.item)
             IN  IF serialized_input.r # "Ok" THEN Ret(serialized_input.r, p.vm)
                 ELSE input_decoded(decode_input(p.vm, serialized_input.v.bytes))

\* VM::output: unimplemented!()
output(vm, k) == Ret("Panic", vm)

\* VM::cloak: unimplemented!()
cloak(vm, m, n) == Ret("Panic", vm)

-----------------------------------------------------------------------------
(* The instruction loop *)

\* The Instruction variants that VM::step answers with unimplemented!()
Unimplemented ==
    {"Const", "Var", "Alloc", "Mintime", "Maxtime", "Neg", "Add", "Mul", "Eq", "Range",
     "And", "Or", "Verify", "Blind", "Reblind", "Unblind", "Borrow", "Retire", "Qty",
     "Flavor", "Import", "Export", "Contract", "Log", "Signtx", "Call", "Left", "Right",
     "Delegate"}

\* The match of VM::step
dispatch(vm, i) ==
    CASE i.op = "Push" -> pushdata(vm, i.a)
      [] i.op = "Drop" -> drop(vm)
      [] i.op = "Dup" -> dup(vm, i.a)
      [] i.op = "Roll" -> roll(vm, i.a)
      [] i.op = "Issue" -> issue(vm)
      [] i.op = "Cloak" -> cloak(vm, i.a, i.b)
      [] i.op = "Input" -> input(vm)
      [] i.op = "Output" -> output(vm, i.a)
      [] i.op = "Nonce" -> nonce(vm)
      [] i.op = "Ext" -> ext(vm, i.a)
      [] i.op \in Unimplemented -> Ret("Panic", vm)

\* finish_run that resumes the last suspended run without taking it off the
\* run stack
finish_run_keeps_stack(vm) ==
    IF Len(vm.run_stack) > 0
    THEN [continue |-> TRUE,
          vm |-> [vm EXCEPT !.current_run = vm.run_stack[Len(vm.run_stack)]]]
    ELSE [continue |-> FALSE, vm |-> vm]

\* VM::finish_run: [continue, vm]
finish_run(vm) ==
    IF Len(vm.run_stack) > 0
    THEN [continue |-> TRUE,
          vm |-> [vm EXCEPT !.current_run = vm.run_stack[Len(vm.run_stack)],
                            !.run_stack = SubSeq(vm.run_stack, 1, Len(vm.run_stack) - 1)]]
    ELSE [continue |-> FALSE, vm |-> vm]

\* advance with the offset left where it was
advance_skipped(vm, instr_size) == vm

\* VM::step, `self.current_run.offset += instr_size`
advance(vm, instr_size) ==
    [vm EXCEPT !.current_run.offset = vm.current_run.offset + instr_size]

\* step_parsed with the offset moved only when the handler succeeds
step_parsed_rewinds(vm, p) ==
    LET d == dispatch(advance(vm, p.size), p.instr)
    IN  [r |-> IF d.r = "Ok" THEN "Continue" ELSE d.r,
         vm |-> IF d.r = "Ok" THEN d.vm
                ELSE [d.vm EXCEPT !.current_run.offset = vm.current_run.offset],
         instr |-> p.instr]

\* VM::step after a successful parse p: the offset moves past the instruction,
\* then the instruction is dispatched, and `?` hands on what the handler
\* returned
step_parsed(vm, p) ==
    LET d == dispatch(advance(vm, p.size), p.instr)
    IN  [r |-> IF d.r = "Ok" THEN "Continue" ELSE d.r,
         vm |-> d.vm, instr |-> p.instr]

\* VM::step: [r, vm, instr] where r is "Continue" for Ok(true), "Finished" for
\* Ok(false), an error or "Panic"
step(vm) ==
    LET run == vm.current_run
    IN  IF run.offset = Len(run.program)
        THEN LET f == finish_run(vm)
             IN  [r |-> IF f.continue THEN "Continue" ELSE "Finished",
                  vm |-> f.vm, instr |-> NoInstr]
        ELSE IF run.offset > Len(run.program)
        THEN [r |-> "Panic", vm |-> vm, instr |-> NoInstr]
        ELSE
        LET p == parse(SliceFrom(run.program, run.offset))
        IN  IF ~p.ok THEN [r |-> "FormatError", vm |-> vm, instr |-> NoInstr]
            ELSE step_parsed(vm, p)

\* run_continues with a loop that goes on after an error
run_continues_after_error(r) == r \notin {"Finished", "Panic"}

\* VM::run: the loop goes on exactly when step() returned Ok(true)
run_continues(r) == r = "Continue"

\* new_vm with the unique flag set from the start
new_vm_unique_set(tx) ==
    [version |-> tx.version, mintime |-> tx.mintime, maxtime |-> tx.maxtime,
     program |-> tx.program, extension |-> tx.version > CURRENT_VERSION,
     unique |-> TRUE, stack |-> <<>>,
     current_run |-> [program |-> tx.program, offset |-> 0],
     run_stack |-> <<>>, txlog |-> <<>>, variable_commitments |-> <<>>]

\* new_vm with extensions allowed from CURRENT_VERSION on
new_vm_extension_at_current(tx) ==
    [version |-> tx.version, mintime |-> tx.mintime, maxtime |-> tx.maxtime,
     program |-> tx.program, extension |-> tx.version >= CURRENT_VERSION,
     unique |-> FALSE, stack |-> <<>>,
     current_run |-> [program |-> tx.program, offset |-> 0],
     run_stack |-> <<>>, txlog |-> <<>>, variable_commitments |-> <<>>]

\* VM::verify_tx, construction: the VM for a transaction tx
new_vm(tx) ==
    [version |-> tx.version,
     mintime |-> tx.mintime,
     maxtime |-> tx.maxtime,
     program |-> tx.program,
     extension |-> tx.version > CURRENT_VERSION,
     unique |-> FALSE,
     stack |-> <<>>,
     current_run |-> [program |-> tx.program, offset |-> 0],
     run_stack |-> <<>>,
     txlog |-> <<>>,
     variable_commitments |-> <<>>]

\* verify_tx_checks with the two checks in the other order
verify_tx_checks_unique_first(vm) ==
    IF vm.unique = FALSE THEN "NotUniqueTxid"
    ELSE IF Len(vm.stack) > 0 THEN "StackNotClean"
    ELSE "Panic"

\* VM::verify_tx, after vm.run() returned Ok: the two checks, then unimplemented!()
verify_tx_checks(vm) ==
    IF Len(vm.stack) > 0 THEN "StackNotClean"
    ELSE IF vm.unique = FALSE THEN "NotUniqueTxid"
    ELSE "Panic"

\* VM::verify_tx, `vm.run()?` and what follows: r is what the step that ended
\* the loop of VM::run returned
verify_tx_return(r, vm) ==
    IF r = "Finished" THEN verify_tx_checks(vm) ELSE r

-----------------------------------------------------------------------------
(* The transactions verified *)

\* Largest number of code fragments a program is made of
MaxInstr == 3

\* The transaction versions tried: below, at and above CURRENT_VERSION
Versions == {0, 1, 2}

MinTimes == {1}

MaxTimes == {2}

\* A 32-byte string of one repeated byte
Point(b) == [i \in 1..PointLen |-> b]

\* A commitment table to encode sample contracts against
SampleTable ==
    <<[state |-> "Detached", point |-> Point(3)],
      [state |-> "Detached", point |-> Point(4)]>>

SampleValue == PortableValue([index |-> 0], [index |-> 1])

SampleContract == ContractItem(Point(7), <<SampleValue, PortableData(<<9, 8>>)>>)

\* Input = PreviousTxID || PreviousOutput
EncodeInput(txid, contract) ==
    txid \o encode_output([variable_commitments |-> SampleTable], contract).bytes

WellFormedInput == EncodeInput(Point(5), SampleContract)

MalformedInputs ==
    {\* the last payload item is cut short, after a Value was decoded
     SubSeq(WellFormedInput, 1, Len(WellFormedInput) - 1),
     \* an item tag that is neither DATA_TYPE nor VALUE_TYPE
     Point(5) \o Point(7) \o write_u32(1) \o <<2>>,
     \* a payload count of 0xFFFFFFFF
     Point(5) \o Point(7) \o <<255, 255, 255, 255>> \o <<0>>}

PushChunk(bytes) == <<Opcode("Push")>> \o write_u32(Len(bytes)) \o bytes

Op1(name) == <<Opcode(name)>>

OpN(name, n) == <<Opcode(name)>> \o write_u32(n)

\* The code fragments programs are concatenated from
Chunks ==
    {PushChunk(b) : b \in {<<>>, Point(2), <<9, 8>>, WellFormedInput} \cup MalformedInputs}
    \cup {Op1("Drop"), Op1("Nonce"), Op1("Input"), Op1("Issue"), Op1("Const")}
    \cup {OpN("Dup", 0), OpN("Dup", 1), OpN("Roll", 0), OpN("Roll", 1)}
    \cup {<<255>>}                 \* an unassigned opcode
    \cup {<<Opcode("Dup"), 1>>}    \* an instruction cut short

\* The concatenation of a sequence of byte strings
RECURSIVE Concat(_)
Concat(ss) == IF ss = <<>> THEN <<>> ELSE Head(ss) \o Concat(Tail(ss))

\* The transactions whose program is made of n of the code fragments chunks
TxsOf(n, chunks) ==
    {[version |-> v, mintime |-> t1, maxtime |-> t2, program |-> Concat(cs)] :
        v \in Versions, t1 \in MinTimes, t2 \in MaxTimes, cs \in [1..n -> chunks]}

Txs(n) == TxsOf(n, Chunks)

-----------------------------------------------------------------------------
(* The state machine *)

\* The VM as the record the handlers take
VM ==
    [version |-> version, mintime |-> mintime, maxtime |-> maxtime, program |-> program,
     extension |-> extension, unique |-> unique, stack |-> stack,
     current_run |-> current_run, run_stack |-> run_stack, txlog |-> txlog,
     variable_commitments |-> variable_commitments]

\* What a step can change, for comparison after it
Snapshot ==
    [unique |-> unique, stack |-> stack, offset |-> current_run.offset,
     current_run |-> current_run,
     run_stack |-> run_stack, txlog |-> txlog,
     variable_commitments |-> variable_commitments, extension |-> extension]

\* The variables hold the fields of vm
IsVM(vm) ==
    /\ version = vm.version
    /\ mintime = vm.mintime
    /\ maxtime = vm.maxtime
    /\ program = vm.program
    /\ extension = vm.extension
    /\ unique = vm.unique
    /\ stack = vm.stack
    /\ current_run = vm.current_run
    /\ run_stack = vm.run_stack
    /\ txlog = vm.txlog
    /\ variable_commitments = vm.variable_commitments

\* The next state's variables hold the fields of vm
BecomesVM(vm) ==
    /\ version' = vm.version
    /\ mintime' = vm.mintime
    /\ maxtime' = vm.maxtime
    /\ program' = vm.program
    /\ extension' = vm.extension
    /\ unique' = vm.unique
    /\ stack' = vm.stack
    /\ current_run' = vm.current_run
    /\ run_stack' = vm.run_stack
    /\ txlog' = vm.txlog
    /\ variable_commitments' = vm.variable_commitments

\* Nothing has been encoded, decoded or allocated from outside a run
CodecIdle ==
    /\ handles = <<>>
    /\ contract_in = NoContract
    /\ wire = <<>>
    /\ decoded = [r |-> "None"]

\* verify_tx has built the VM and is about to call vm.run()
Init ==
    /\ \E n \in 0..MaxInstr : \E tx \in Txs(n) : IsVM(new_vm(tx))
    /\ steps = 0
    /\ CodecIdle
    /\ pc = "run"
    /\ step_result = "None"
    /\ result = "None"
    /\ instr = NoInstr
    /\ prev = Snapshot

\* The cap of the step counter; no run of the programs below gets near it
MaxSteps == 8

\* One iteration of the loop of VM::run; when step() does not return Ok(true)
\* the loop ends and verify_tx returns.
Step ==
    /\ pc = "run"
    /\ steps < MaxSteps
    /\ UNCHANGED <<handles, contract_in, wire, decoded>>
    /\ LET s == step(VM)
       IN  /\ prev' = Snapshot
           /\ steps' = IF s.instr = NoInstr THEN steps ELSE steps + 1
           /\ instr' = s.instr
           /\ BecomesVM(s.vm)
           /\ step_result' = s.r
           /\ pc' = IF run_continues(s.r) THEN "run" ELSE "done"
           /\ result' = IF run_continues(s.r) THEN "None" ELSE verify_tx_return(s.r, s.vm)

Next == Step

Spec == Init /\ [][Next]_vars

\* VM::run is a sequential loop: while step() returns Ok(true) the next call of
\* step() is made
\* The runs whose termination is checked: the loop is followed to its end on
\* programs of instructions that succeed, fail, or are skipped as extensions
MaxFairInstr == 2

FairChunks ==
    {PushChunk(Point(2)), Op1("Nonce"), Op1("Drop"), OpN("Dup", 0), <<255>>}

FairInit ==
    /\ \E n \in 0..MaxFairInstr : \E tx \in TxsOf(n, FairChunks) : IsVM(new_vm(tx))
    /\ steps = 0
    /\ CodecIdle
    /\ pc = "run"
    /\ step_result = "None"
    /\ result = "None"
    /\ instr = NoInstr
    /\ prev = Snapshot

FairSpec == FairInit /\ [][Next]_vars /\ WF_vars(Next)

\* The VM in the middle of a run of the complete instruction set: the
\* instructions this core leaves unimplemented (var, const, eq, borrow, ...)
\* are the ones that put the other variants of Item on the stack.  One
\* instruction is then executed on it.
MaxPreStack == 3

HandlerChunks == Chunks \cup {OpN("Dup", 2), OpN("Roll", 2)}

SampleItems ==
    {DataItem(Point(2)), DataItem(<<9, 8>>), ContractItem(Point(6), <<>>),
     ValueItem([index |-> 0], [index |-> 1]), WideValueItem(0, 1), VariableItem(0),
     ExpressionItem(<<<<0, 1>>>>), ConstraintItem("Eq", <<0, 1>>)}

HandlerInit ==
    /\ \E n \in 0..MaxPreStack : \E st \in [1..n -> SampleItems] :
       \E k \in 0..1 : \E tx \in TxsOf(k, HandlerChunks) :
           IsVM([new_vm(tx) EXCEPT !.stack = st, !.variable_commitments = SampleTable])
    /\ steps = 0
    /\ CodecIdle
    /\ pc = "run"
    /\ step_result = "None"
    /\ result = "None"
    /\ instr = NoInstr
    /\ prev = Snapshot

HandlerSpec == HandlerInit /\ [][Next]_vars

\* The VM with runs suspended on the run stack, as the call instructions of the
\* complete instruction set leave it (this core has none that suspends a run):
\* the current run and then the suspended ones are executed to the end.
MaxRuns == 2

SampleRuns ==
    {[program |-> <<>>, offset |-> 0],
     [program |-> Op1("Drop"), offset |-> 1],
     [program |-> Op1("Drop") \o PushChunk(<<9, 8>>), offset |-> 1]}

NestedChunks == {PushChunk(<<9, 8>>), Op1("Drop"), <<255>>}

NestedInit ==
    /\ \E n \in 0..MaxRuns : \E rs \in [1..n -> SampleRuns] :
       \E k \in 0..1 : \E tx \in TxsOf(k, NestedChunks) :
           IsVM([new_vm(tx) EXCEPT !.run_stack = rs])
    /\ steps = 0
    /\ CodecIdle
    /\ pc = "run"
    /\ step_result = "None"
    /\ result = "None"
    /\ instr = NoInstr
    /\ prev = Snapshot

NestedSpec == NestedInit /\ [][Next]_vars

\* Runs that write the log more than once: the programs are made of fragments
\* that each create a contract (or fail to), and of instructions that move or
\* remove what is on the stack.
MaxLogInstr == 3

LogChunks ==
    {PushChunk(Point(2)) \o Op1("Nonce"),
     PushChunk(Point(6)) \o Op1("Nonce"),
     PushChunk(WellFormedInput) \o Op1("Input"),
     PushChunk(SubSeq(WellFormedInput, 1, Len(WellFormedInput) - 1)) \o Op1("Input"),
     Op1("Nonce"), Op1("Drop"), OpN("Roll", 1)}

LogInit ==
    /\ \E n \in 0..MaxLogInstr : \E tx \in TxsOf(n, LogChunks) : IsVM(new_vm(tx))
    /\ steps = 0
    /\ CodecIdle
    /\ pc = "run"
    /\ step_result = "None"
    /\ result = "None"
    /\ instr = NoInstr
    /\ prev = Snapshot

LogSpec == LogInit /\ [][Next]_vars

\* The output codec and the variable table on their own: variables are
\* allocated on a fresh VM, a contract over them is encoded, and the bytes, as
\* they are or damaged, are decoded again.
MaxVars == 2

CodecPayloadLens == 0..2

CodecPoints == {Point(3), Point(4)}

CodecTx == [version |-> CURRENT_VERSION, mintime |-> 1, maxtime |-> 2, program |-> <<>>]

\* The payload items over the first n variables
CodecItems(n) ==
    {PortableData(<<>>), PortableData(<<9, 8>>)}
    \cup {PortableValue([index |-> q], [index |-> f]) : q, f \in 0..(n - 1)}

\* The contracts over the first n variables
CodecContracts(n) ==
    {ContractItem(Point(7), payload) :
        payload \in UNION {[1..k -> CodecItems(n)] : k \in CodecPayloadLens}}

\* The ways an encoded output w of k items is damaged: cut short at any length;
\* the count raised to k + 1, to one more than the bytes that follow it, and to
\* 0xFFFFFFFF; the tag of the first item replaced by an unassigned one.
Corruptions(w, k) ==
    {SubSeq(w, 1, n) : n \in 0..(Len(w) - 1)}
    \cup {Slice(w, 0, PointLen) \o count \o SliceFrom(w, PointLen + 4) :
            count \in {write_u32(k + 1), write_u32(Len(w) - PointLen - 4 + 1),
                       <<255, 255, 255, 255>>}}
    \cup (IF k = 0 THEN {} ELSE {[w EXCEPT ![PointLen + 4 + 1] = 2]})

CodecInit ==
    /\ IsVM(new_vm(CodecTx))
    /\ steps = 0
    /\ CodecIdle
    /\ pc = "alloc"
    /\ step_result = "None"
    /\ result = "None"
    /\ instr = NoInstr
    /\ prev = Snapshot

\* One call of make_variable
Allocate ==
    /\ pc = "alloc"
    /\ Len(variable_commitments) < MaxVars
    /\ \E c \in CodecPoints :
        LET m == make_variable(VM, c)
        IN  /\ BecomesVM(m.vm)
            /\ handles' = Append(handles, [var |-> m.var, commitment |-> c])
    /\ prev' = Snapshot
    /\ UNCHANGED <<pc, step_result, result, instr, steps, contract_in, wire, decoded>>

\* One call of encode_output on a contract over the allocated variables
Encode ==
    /\ pc = "alloc"
    /\ \E c \in CodecContracts(Len(variable_commitments)) :
        LET e == encode_output(VM, c)
        IN  /\ e.r = "Ok"
            /\ contract_in' = c
            /\ wire' = e.bytes
    /\ pc' = "encoded"
    /\ BecomesVM(VM)
    /\ UNCHANGED <<step_result, result, instr, steps, prev, handles, decoded>>

\* The encoded output is damaged on its way
Corrupt ==
    /\ pc = "encoded"
    /\ \E w \in Corruptions(wire, Len(contract_in.payload)) : wire' = w
    /\ pc' = "corrupted"
    /\ BecomesVM(VM)
    /\ UNCHANGED <<step_result, result, instr, steps, prev, handles, contract_in, decoded>>

\* One call of decode_output on the bytes
Decode ==
    /\ pc \in {"encoded", "corrupted"}
    /\ LET d == decode_output(VM, wire)
       IN  /\ BecomesVM(d.vm)
           /\ decoded' = [r |-> d.r, contract |-> d.contract]
    /\ pc' = IF pc = "encoded" THEN "decoded" ELSE "decoded_corrupted"
    /\ prev' = Snapshot
    /\ UNCHANGED <<step_result, result, instr, steps, handles, contract_in, wire>>

CodecNext == Allocate \/ Encode \/ Corrupt \/ Decode

CodecSpec == CodecInit /\ [][CodecNext]_vars

-----------------------------------------------------------------------------
(* Properties *)

\* The stack the last step started with, its depth, its top and what was below
PrevDepth == Len(prev.stack)

PrevTop == prev.stack[PrevDepth]

PrevBelow == SubSeq(prev.stack, 1, PrevDepth - 1)

\* The item at depth i (0 = top) of the stack the last step started with
PrevAt(i) == prev.stack[PrevDepth - i]

\* verify_tx has returned (or panicked) after a run that ended without error
RunCompleted == pc = "done" /\ step_result = "Finished"

\* The operations of the instructions of a byte string, parsed from its start
\* to its end or to the first position that does not parse
RECURSIVE OpsOf(_)
OpsOf(bytes) ==
    LET p == parse(bytes)
    IN  IF ~p.ok THEN <<>> ELSE <<p.instr.op>> \o OpsOf(SliceFrom(bytes, p.size))

Contains(bytes, ops) == \E i \in 1..Len(OpsOf(bytes)) : OpsOf(bytes)[i] \in ops

Linear == {"Contract", "Value", "WideValue"}

\* The number of items of a stack whose variant is in types
RECURSIVE CountOf(_, _)
CountOf(st, types) ==
    IF st = <<>> THEN 0
    ELSE (IF Head(st).type \in types THEN 1 ELSE 0) + CountOf(Tail(st), types)

\* C1: when the run completes without error and leaves at least one item on
\* the stack, verify_tx returns StackNotClean, whether unique is set or not.
C1_StackNotClean ==
    (RunCompleted /\ Len(stack) > 0) => result = "StackNotClean"

C1_Witness ==
    RunCompleted /\ Len(stack) > 0 /\ unique = FALSE /\ result = "StackNotClean"

\* C2: when the program contains no Input and no Nonce instruction and its
\* run completes without error with an empty stack, verify_tx returns
\* NotUniqueTxid.
C2_NotUniqueTxid ==
    (RunCompleted /\ stack = <<>> /\ ~Contains(program, {"Input", "Nonce"}))
        => result = "NotUniqueTxid"

C2_Witness ==
    /\ RunCompleted /\ stack = <<>> /\ ~Contains(program, {"Input", "Nonce"})
    /\ Contains(program, {"Push"})
    /\ result = "NotUniqueTxid"

\* C3: Dup(i) and Roll(i) with i at or beyond the stack depth return
\* StackUnderflow, and so does every popping instruction (Drop, Nonce, Input,
\* Issue) on an empty stack; with i below the depth Dup and Roll do not
\* return StackUnderflow.
C3_StackUnderflow ==
    /\ (instr.op \in {"Dup", "Roll"} /\ instr.a >= PrevDepth)
            => step_result = "StackUnderflow"
    /\ (instr.op \in {"Drop", "Nonce", "Input", "Issue"} /\ PrevDepth = 0)
            => step_result = "StackUnderflow"
    /\ (instr.op \in {"Dup", "Roll"} /\ instr.a < PrevDepth)
            => step_result # "StackUnderflow"

C3_Witness ==
    /\ instr.op = "Dup" /\ PrevDepth = 1 /\ instr.a = 1
    /\ step_result = "StackUnderflow" /\ result = "StackUnderflow"

\* C4: Dup aimed at, or Drop popping, a Contract, Value or WideValue returns
\* TypeNotCopyable; on Data, Variable, Expression or Constraint it succeeds.
\* No instruction other than the two that create a contract (Nonce, Input)
\* leaves more Contract, Value or WideValue items on the stack than it found.
C4_Copyability ==
    /\ (instr.op = "Dup" /\ instr.a < PrevDepth) =>
            /\ PrevAt(instr.a).type \in Linear => step_result = "TypeNotCopyable"
            /\ PrevAt(instr.a).type \in {"Data", "Variable", "Expression", "Constraint"}
                    => step_result = "Continue"
    /\ (instr.op = "Drop" /\ PrevDepth > 0) =>
            /\ PrevTop.type \in Linear => step_result = "TypeNotCopyable"
            /\ PrevTop.type \in {"Data", "Variable", "Expression", "Constraint"}
                    => step_result = "Continue"
    /\ instr.op \notin {"Nonce", "Input"}
            => CountOf(stack, Linear) <= CountOf(prev.stack, Linear)

C4_Witness ==
    /\ instr.op = "Dup" /\ instr.a = 1 /\ PrevDepth = 2
    /\ PrevAt(1).type = "Value" /\ PrevTop.type = "Variable"
    /\ step_result = "TypeNotCopyable"

\* C5: the extension flag is (version > CURRENT_VERSION) in every state; an
\* Ext instruction returns ExtensionsNotAllowed when version <= CURRENT_VERSION
\* and succeeds without touching the stack when version > CURRENT_VERSION.
C5_ExtensionGating ==
    /\ extension = (version > CURRENT_VERSION)
    /\ extension = prev.extension
    /\ instr.op = "Ext" =>
            IF version <= CURRENT_VERSION
            THEN step_result = "ExtensionsNotAllowed"
            ELSE step_result = "Continue" /\ stack = prev.stack

C5_Witness ==
    /\ instr.op = "Ext" /\ version = CURRENT_VERSION
    /\ step_result = "ExtensionsNotAllowed" /\ result = "ExtensionsNotAllowed"

\* C6: an Ext instruction leaves the stack and the log as they were; with
\* extension unset it returns ExtensionsNotAllowed, with extension set it
\* changes neither unique nor the variable table.
C6_ExtFrame ==
    instr.op = "Ext" =>
        /\ stack = prev.stack
        /\ txlog = prev.txlog
        /\ ~extension => step_result = "ExtensionsNotAllowed"
        /\ extension => /\ step_result = "Continue"
                        /\ unique = prev.unique
                        /\ variable_commitments = prev.variable_commitments

C6_Witness ==
    /\ instr.op = "Ext" /\ ~extension /\ step_result = "ExtensionsNotAllowed"
    /\ Len(stack) > 0 /\ Len(txlog) > 0 /\ stack = prev.stack /\ txlog = prev.txlog

\* C7: Nonce on a 32-byte Data item replaces it by a Contract with that
\* predicate and no payload, appends one Nonce(predicate, maxtime) entry to
\* the log and sets unique; the items below are untouched.  On an empty stack
\* it returns StackUnderflow, on another variant TypeNotData, on Data of
\* another length a format or point error, and then neither the log nor
\* unique changes.
C7_Nonce ==
    instr.op = "Nonce" =>
        IF PrevDepth > 0 /\ PrevTop.type = "Data" /\ Len(PrevTop.bytes) = PointLen
        THEN /\ step_result = "Continue"
             /\ stack = Append(PrevBelow, ContractItem(PrevTop.bytes, <<>>))
             /\ txlog = Append(prev.txlog, NonceEntry(PrevTop.bytes, maxtime))
             /\ unique = TRUE
        ELSE /\ txlog = prev.txlog
             /\ unique = prev.unique
             /\ step_result =
                    IF PrevDepth = 0 THEN "StackUnderflow"
                    ELSE IF PrevTop.type # "Data" THEN "TypeNotData"
                    ELSE "FormatError"

C7_Witness ==
    /\ instr.op = "Nonce" /\ step_result = "Continue"
    /\ PrevDepth = 2 /\ Len(stack) = 2 /\ stack[1] = prev.stack[1]
    /\ stack[2].type = "Contract" /\ Len(txlog) = 1 /\ ~prev.unique /\ unique

\* C8: Input on a Data item holding PreviousTxID || PreviousOutput replaces
\* it by the decoded Contract, appends one Input entry with the UTXO id of
\* (txid, output bytes) and sets unique; the sample encoding decodes to the
\* sample contract with fresh variable handles.  When the pop, the downcast
\* or the decoding fails, no Contract is pushed, the log is as before and
\* unique is not set.
C8_Input ==
    instr.op = "Input" =>
        IF step_result = "Continue"
        THEN /\ PrevDepth > 0 /\ PrevTop.type = "Data"
             /\ Len(stack) = PrevDepth
             /\ SubSeq(stack, 1, PrevDepth - 1) = PrevBelow
             /\ stack[PrevDepth].type = "Contract"
             /\ stack[PrevDepth].predicate = Slice(PrevTop.bytes, 32, 64)
             /\ Len(stack[PrevDepth].payload) = LE32Value(Slice(PrevTop.bytes, 64, 68))
             /\ txlog = Append(prev.txlog,
                               InputEntry(from_output(SliceFrom(PrevTop.bytes, 32),
                                                      Slice(PrevTop.bytes, 0, 32))))
             /\ unique = TRUE
        ELSE /\ PrevDepth > 0 => PrevTop # DataItem(WellFormedInput)
             /\ stack \in {prev.stack, PrevBelow}
             /\ txlog = prev.txlog
             /\ unique = prev.unique

C8_Witness ==
    /\ instr.op = "Input" /\ step_result = "Continue"
    /\ PrevTop = DataItem(WellFormedInput)
    /\ stack[PrevDepth].payload =
            <<PortableValue([index |-> Len(prev.variable_commitments)],
                            [index |-> Len(prev.variable_commitments) + 1]),
              PortableData(<<9, 8>>)>>
    /\ PrevDepth = 2 /\ Len(txlog) = 1 /\ txlog[1].type = "Input" /\ unique

\* C9: verify_tx ends with VerifiedTx or with one VMError, never otherwise.
C9_TypedOutcome ==
    pc = "done" => result \in VMErrors \cup {"VerifiedTx"}

\* C10: the first error ends the run at once: verify_tx returns that very
\* error and no further step is taken.
C10_FirstErrorStops ==
    /\ step_result \in VMErrors =>
            /\ pc = "done"
            /\ result = step_result
    /\ pc = "done" => ~ENABLED Next

C10_Witness ==
    /\ step_result = "StackUnderflow" /\ result = "StackUnderflow" /\ pc = "done"
    /\ Len(stack) > 0 /\ unique = FALSE
    /\ current_run.offset < Len(current_run.program)

\* The run has parsed and dispatched an instruction in its last step
Dispatched == instr # NoInstr

\* C11: every run terminates.  No step decreases the offset of the current
\* run, every step that parsed an instruction has strictly increased it, the
\* offset never passes the end of the program, so the number of instructions
\* executed never exceeds the program length; and the loop of VM::run
\* eventually stops.
C11_OffsetProgress ==
    /\ current_run.offset >= prev.offset
    /\ Dispatched => current_run.offset > prev.offset
    /\ current_run.offset <= Len(current_run.program)
    /\ steps <= current_run.offset
    /\ steps <= Len(program)

C11_Terminates == []C11_OffsetProgress /\ <>(pc = "done")

C11_Witness ==
    /\ pc = "done" /\ step_result = "Finished"
    /\ steps = MaxFairInstr /\ current_run.offset = Len(program)

\* The count field of the bytes given to decode_output and what follows it
WireCount == read_usize(SliceFrom(wire, PointLen))

\* C12: decode_output answers FormatError without allocating any variable
\* whenever the count it reads exceeds the number of bytes after the count
\* field; and every damaged output (cut short, count too large, unassigned item
\* tag) is answered with FormatError, never with a read outside the buffer.
C12_DecodeRejects ==
    /\ (/\ pc \in {"decoded", "decoded_corrupted"}
        /\ WireCount.r = "Ok"
        /\ WireCount.v > Len(WireCount.rest))
       => /\ decoded.r = "FormatError"
          /\ variable_commitments = prev.variable_commitments
    /\ pc = "decoded_corrupted" => decoded.r = "FormatError"

\* The count was raised to 0xFFFFFFFF in front of a complete Value item
C12_Witness ==
    /\ pc = "decoded_corrupted"
    /\ Len(wire) > PointLen + 4 + 64
    /\ Slice(wire, PointLen, PointLen + 4) = <<255, 255, 255, 255>>
    /\ wire[PointLen + 4 + 1] = VALUE_TYPE
    /\ decoded.r = "FormatError"
    /\ variable_commitments = prev.variable_commitments

\* The point a variable resolves to in the current table
Resolved(var) == get_variable_commitment(VM, var).v

\* The decoded item carries what the encoded item carried: the same bytes for
\* Data, the same quantity and flavor points behind fresh variables for Value
SameItem(old, new) ==
    /\ new.type = old.type
    /\ old.type = "Data" => new.bytes = old.bytes
    /\ old.type = "Value" =>
        /\ Resolved(new.qty) = Resolved(old.qty)
        /\ Resolved(new.flv) = Resolved(old.flv)
        /\ new.qty.index >= Len(prev.variable_commitments)
        /\ new.flv.index >= Len(prev.variable_commitments)
        /\ new.qty.index # new.flv.index

\* C13: decoding the encoding of a contract succeeds and gives a contract with
\* the same predicate and the same payload items in the same order: Data items
\* with the same bytes, Value items whose fresh variables resolve to the points
\* the original variables resolve to.
C13_RoundTrip ==
    pc = "decoded" =>
        /\ decoded.r = "Ok"
        /\ decoded.contract.type = "Contract"
        /\ decoded.contract.predicate = contract_in.predicate
        /\ Len(decoded.contract.payload) = Len(contract_in.payload)
        /\ \A j \in 1..Len(contract_in.payload) :
              SameItem(contract_in.payload[j], decoded.contract.payload[j])
        /\ Len(wire) = output_size(contract_in)

\* A Data item and a Value whose quantity and flavor are different points
C13_Witness ==
    /\ pc = "decoded" /\ decoded.r = "Ok"
    /\ Len(contract_in.payload) = 2
    /\ contract_in.payload[1].type = "Value"
    /\ Resolved(contract_in.payload[1].qty) # Resolved(contract_in.payload[1].flv)
    /\ contract_in.payload[2] = PortableData(<<9, 8>>)
    /\ decoded.contract.payload[2] = PortableData(<<9, 8>>)

\* C14: the N variables allocated in sequence on a fresh VM have the handles
\* 0..N-1 in order, the entry of each in the table is Detached with the
\* commitment it was allocated with, and each resolves to that commitment, also
\* after later allocations.
C14_Handles ==
    \A i \in 1..Len(handles) :
        /\ handles[i].var.index = i - 1
        /\ i <= Len(variable_commitments)
        /\ variable_commitments[i] = [state |-> "Detached", point |-> handles[i].commitment]
        /\ get_variable_commitment(VM, handles[i].var)
             = [r |-> "Ok", v |-> handles[i].commitment]

\* Two variables with different commitments, and further ones allocated after
\* them by decode_output
C14_Witness ==
    /\ Len(handles) = MaxVars
    /\ handles[1].commitment # handles[MaxVars].commitment
    /\ pc = "decoded"
    /\ Len(variable_commitments) > Len(handles)

\* The run has not failed so far
NotFailed == step_result \in {"None", "Continue", "Finished"}

\* C15: a contract that Nonce or Input has pushed stays on the stack of every
\* later state of a run that does not fail: there are at least as many
\* contracts on the stack as entries in the log.  So the program of a 32-byte
\* Push followed by Nonce ends with one Nonce entry in the log and one
\* contract on the stack, and verify_tx answers StackNotClean; no completed run
\* that has created a contract is a success.
C15_ContractStays ==
    /\ (NotFailed /\ Len(txlog) > 0)
       => /\ CountOf(stack, {"Contract"}) >= Len(txlog)
          /\ pc = "done" => result = "StackNotClean"
    /\ (pc = "done" /\ program = PushChunk(Point(2)) \o Op1("Nonce"))
       => /\ step_result = "Finished"
          /\ Len(txlog) = 1 /\ txlog[1].type = "Nonce"
          /\ Len(stack) = 1 /\ stack[1].type = "Contract"
          /\ result = "StackNotClean"

\* Push, Nonce, and a Roll that moved the contract afterwards
C15_Witness ==
    /\ pc = "done" /\ step_result = "Finished" /\ result = "StackNotClean"
    /\ Len(txlog) = 1 /\ txlog[1].type = "Nonce"
    /\ steps = 3 /\ Contains(program, {"Roll"})
    /\ stack = <<ContractItem(Point(2), <<>>)>>

\* The run is at the end of its program
Exhausted(run) == run.offset = Len(run.program)

\* C16: a step taken with the offset of the current run at the end of its
\* program executes no instruction and changes neither stack, log nor
\* variables: with suspended runs it takes the most recently suspended one off
\* the run stack, makes it the current run and the loop goes on; with none it
\* returns Ok(false) and the loop ends.  The loop ends only so or with a step
\* that failed (an error, or the panic of an unimplemented instruction).
C16_EndOfRun ==
    /\ (step_result # "None" /\ Exhausted(prev.current_run))
       => /\ instr = NoInstr
          /\ stack = prev.stack /\ txlog = prev.txlog /\ unique = prev.unique
          /\ variable_commitments = prev.variable_commitments
          /\ IF prev.run_stack # <<>>
             THEN /\ step_result = "Continue" /\ pc = "run"
                  /\ current_run = prev.run_stack[Len(prev.run_stack)]
                  /\ run_stack = SubSeq(prev.run_stack, 1, Len(prev.run_stack) - 1)
             ELSE /\ step_result = "Finished" /\ pc = "done"
                  /\ current_run = prev.current_run /\ run_stack = <<>>
    /\ pc = "done"
       => \/ step_result \in VMErrors \cup {"Panic"}
          \/ /\ step_result = "Finished"
             /\ Exhausted(prev.current_run) /\ prev.run_stack = <<>>
    /\ pc = "run" => step_result \in {"None", "Continue"}

\* Of two different suspended runs the later one has been resumed
C16_Witness ==
    /\ step_result = "Continue" /\ instr = NoInstr
    /\ Len(prev.run_stack) = 2 /\ prev.run_stack[1] # prev.run_stack[2]
    /\ current_run = prev.run_stack[2]
    /\ run_stack = <<prev.run_stack[1]>>
    /\ prev.offset > 0

\* What Instruction::parse made of the program at the offset the last step
\* started with
PrevParse == parse(SliceFrom(prev.current_run.program, prev.offset))

\* The last step has left everything as it was
Untouched ==
    /\ Snapshot = prev
    /\ current_run.program = prev.current_run.program

\* C17: the offset is moved past the parsed instruction before the
\* instruction is dispatched: after every step that parsed an instruction,
\* failed or not, the offset is the old offset plus the encoded size of that
\* instruction; after a step whose parse failed, FormatError is returned and
\* the offset and the rest of the VM state are as before.
C17_OffsetBeforeDispatch ==
    /\ Dispatched
       => /\ PrevParse.ok /\ PrevParse.instr = instr
          /\ current_run.offset = prev.offset + PrevParse.size
          /\ current_run.program = prev.current_run.program
    /\ (step_result # "None" /\ ~Exhausted(prev.current_run) /\ ~PrevParse.ok)
       => /\ step_result = "FormatError" /\ instr = NoInstr
          /\ Untouched

\* A Dup that failed on the second instruction of the program
C17_Witness ==
    /\ instr.op = "Dup" /\ step_result = "StackUnderflow"
    /\ prev.offset > 0
    /\ current_run.offset = prev.offset + 5
    /\ current_run.offset < Len(program)

\* A parse that failed after an instruction had been executed
C17_ParseFailed ==
    /\ step_result = "FormatError" /\ instr = NoInstr
    /\ prev.offset > 0 /\ prev.stack # <<>>

\* C18: Push(len) succeeds and puts on the stack one Data item of the len
\* bytes of the current program that end at the offset, which is already
\* past the instruction; the items below, the log, the unique flag, the
\* variables and the run stack are as before; the bytes lie inside the
\* instruction, after its opcode and length field.
C18_Push ==
    instr.op = "Push" =>
        /\ step_result = "Continue"
        /\ Len(stack) = PrevDepth + 1
        /\ SubSeq(stack, 1, PrevDepth) = prev.stack
        /\ stack[PrevDepth + 1] =
             DataItem(Slice(current_run.program, current_run.offset - instr.a,
                            current_run.offset))
        /\ Len(stack[PrevDepth + 1].bytes) = instr.a
        /\ current_run.offset - instr.a >= 0
        /\ current_run.offset - instr.a > prev.offset
        /\ current_run.offset <= Len(current_run.program)
        /\ txlog = prev.txlog /\ unique = prev.unique
        /\ variable_commitments = prev.variable_commitments
        /\ run_stack = prev.run_stack

\* The second Push of a program, of two bytes, on top of the first
C18_Witness ==
    /\ instr.op = "Push" /\ instr.a = 2 /\ step_result = "Continue"
    /\ prev.offset > 0 /\ PrevDepth = 1
    /\ stack[2] = DataItem(<<9, 8>>)
    /\ stack[1] # stack[2]

\* A Push of no bytes
C18_EmptyPush ==
    /\ instr.op = "Push" /\ instr.a = 0 /\ step_result = "Continue"
    /\ stack[Len(stack)] = DataItem(<<>>)

\* The number of positions of the stack st that hold the item x
Occurrences(st, x) == Cardinality({j \in 1..Len(st) : st[j] = x})

\* C19: Roll(i) with i below the depth of the stack takes the item at depth i
\* (0 is the top) out and puts it on top: the stack keeps its length, the
\* items below the moved one stay where they were, the items above it move
\* down by one in the same order, every item occurs as often as before, and
\* Roll(0) leaves the stack as it was.  Nothing else changes.
C19_Roll ==
    (instr.op = "Roll" /\ instr.a < PrevDepth) =>
        /\ step_result = "Continue"
        /\ Len(stack) = PrevDepth
        /\ stack[PrevDepth] = PrevAt(instr.a)
        /\ \A j \in 1..(PrevDepth - instr.a - 1) : stack[j] = prev.stack[j]
        /\ \A j \in (PrevDepth - instr.a)..(PrevDepth - 1) : stack[j] = prev.stack[j + 1]
        /\ \A j \in 1..PrevDepth :
              Occurrences(stack, prev.stack[j]) = Occurrences(prev.stack, prev.stack[j])
        /\ instr.a = 0 => stack = prev.stack
        /\ txlog = prev.txlog /\ unique = prev.unique
        /\ variable_commitments = prev.variable_commitments

\* A contract between two other items is moved to the top
C19_Witness ==
    /\ instr.op = "Roll" /\ instr.a = 1 /\ PrevDepth = 3
    /\ PrevAt(1).type = "Contract" /\ PrevAt(0).type = "Value" /\ PrevAt(2).type = "Data"
    /\ stack = <<prev.stack[1], prev.stack[3], prev.stack[2]>>
    /\ step_result = "Continue"

\* C20: Dup(i) with i below the depth of the stack and a copyable item at depth
\* i puts a copy of that item (the one at position len - 1 - i from the
\* bottom) on top: the stack grows by exactly one and every item that was on
\* it keeps its position and value.  Nothing else changes.
C20_Dup ==
    (instr.op = "Dup" /\ instr.a < PrevDepth /\ PrevAt(instr.a).type \in Copyable) =>
        /\ step_result = "Continue"
        /\ Len(stack) = PrevDepth + 1
        /\ stack[PrevDepth + 1] = prev.stack[(PrevDepth - 1 - instr.a) + 1]
        /\ SubSeq(stack, 1, PrevDepth) = prev.stack
        /\ txlog = prev.txlog /\ unique = prev.unique
        /\ variable_commitments = prev.variable_commitments

\* The bottom one of three different items is copied, past a linear item
C20_Witness ==
    /\ instr.op = "Dup" /\ instr.a = 2 /\ PrevDepth = 3
    /\ PrevAt(2).type = "Data" /\ PrevAt(1).type = "Contract" /\ PrevAt(0).type = "Variable"
    /\ stack = Append(prev.stack, prev.stack[1])
    /\ step_result = "Continue"

\* The sequence s is the beginning of the sequence t
IsPrefix(s, t) == Len(s) <= Len(t) /\ SubSeq(t, 1, Len(s)) = s

\* What a step does to the log: it either leaves it as it is, or it is a Nonce
\* or Input that succeeded and has added one entry of its own kind at the end
LogStep ==
    /\ IsPrefix(txlog, txlog')
    /\ txlog' # txlog
       => /\ Len(txlog') = Len(txlog) + 1
          /\ instr'.op \in {"Nonce", "Input"}
          /\ step_result' = "Continue"
          /\ txlog'[Len(txlog')].type = instr'.op
    /\ (instr'.op \in {"Nonce", "Input"} /\ step_result' = "Continue")
       => Len(txlog') = Len(txlog) + 1

\* C21: the log is append-only.  Every step leaves the log of the state before
\* it as the beginning of the log after it, so the log of a later state starts
\* with the log of every earlier state; and an entry is added only by the Nonce
\* or Input that has just succeeded, at the end, so the entries stand in the
\* order in which their instructions were executed.
C21_AppendOnly == [][LogStep]_vars

\* A Nonce entry, then an Input entry, then a Nonce entry
C21_Witness ==
    /\ Len(txlog) = 3
    /\ txlog[1].type = "Nonce" /\ txlog[2].type = "Input" /\ txlog[3].type = "Nonce"
    /\ txlog[1] # txlog[3]
    /\ prev.txlog = SubSeq(txlog, 1, 2)

\* The number of Value items among the first n items of a payload
ValuesIn(payload, n) == Cardinality({i \in 1..n : payload[i].type = "Value"})

\* The entry of the variable table that the handle var names
EntryOf(var) == variable_commitments[var.index + 1]

\* C22: a call of decode_output that starts with a table of s entries gives the
\* j-th Value of the payload (j from 0) the quantity handle s + 2j and the
\* flavor handle s + 2j + 1, both new Detached entries holding the quantity and
\* the flavor point of the encoded item; the table grows by two entries for
\* each Value and by none for a Data item, and its first s entries stay.
C22_DecodeHandles ==
    /\ pc \in {"decoded", "decoded_corrupted"}
       => /\ IsPrefix(prev.variable_commitments, variable_commitments)
          /\ (Len(variable_commitments) - Len(prev.variable_commitments)) % 2 = 0
    /\ (pc = "decoded" /\ decoded.r = "Ok")
       => LET s == Len(prev.variable_commitments)
              payload == decoded.contract.payload
          IN  /\ Len(variable_commitments) = s + 2 * ValuesIn(payload, Len(payload))
              /\ \A i \in 1..Len(payload) :
                    payload[i].type = "Value" =>
                        /\ payload[i].qty.index = s + 2 * ValuesIn(payload, i - 1)
                        /\ payload[i].flv.index = s + 2 * ValuesIn(payload, i - 1) + 1
                        /\ EntryOf(payload[i].qty) =
                             [state |-> "Detached",
                              point |-> EntryOf(contract_in.payload[i].qty).point]
                        /\ EntryOf(payload[i].flv) =
                             [state |-> "Detached",
                              point |-> EntryOf(contract_in.payload[i].flv).point]

\* Two Values decoded into a table that held variables already, the quantity
\* and the flavor of the second being different points
C22_Witness ==
    /\ pc = "decoded" /\ decoded.r = "Ok"
    /\ Len(prev.variable_commitments) = MaxVars
    /\ Len(decoded.contract.payload) = 2
    /\ decoded.contract.payload[1].type = "Value"
    /\ decoded.contract.payload[2].type = "Value"
    /\ decoded.contract.payload[2].qty.index = MaxVars + 2
    /\ decoded.contract.payload[2].flv.index = MaxVars + 3
    /\ EntryOf(decoded.contract.payload[2].qty) # EntryOf(decoded.contract.payload[2].flv)

\* A Data item before a Value: the Data item takes no handle
C22_DataFirst ==
    /\ pc = "decoded" /\ decoded.r = "Ok"
    /\ Len(decoded.contract.payload) = 2
    /\ decoded.contract.payload[1].type = "Data"
    /\ decoded.contract.payload[2].type = "Value"
    /\ decoded.contract.payload[2].qty.index = Len(prev.variable_commitments)

\* The indexes of the Variable handles inside a contract payload
HandlesOfPayload(payload) ==
    UNION {{payload[i].qty.index, payload[i].flv.index} :
            i \in {j \in 1..Len(payload) : payload[j].type = "Value"}}

\* The indexes of the Variable handles an item holds: a Variable is one, a
\* Value holds two, a Contract those of the Values of its payload
HandlesOf(item) ==
    CASE item.type = "Variable" -> {item.index}
      [] item.type = "Value" -> {item.qty.index, item.flv.index}
      [] item.type = "Contract" -> HandlesOfPayload(item.payload)
      [] OTHER -> {}

\* The indexes of all the handles on the stack
HandlesHeld == UNION {HandlesOf(stack[i]) : i \in 1..Len(stack)}

\* C23: every Variable handle held in the VM, as a Variable on the stack, in a
\* Value or in the payload of a Contract, has an index below the length of
\* the variable table and resolves without leaving the table; and no step
\* shortens the table or changes an entry it already had.
C23_HandlesInRange ==
    /\ \A h \in HandlesHeld :
          /\ h < Len(variable_commitments)
          /\ get_variable_commitment(VM, [index |-> h]).r = "Ok"
    /\ IsPrefix(prev.variable_commitments, variable_commitments)

\* Two decoded contracts on the stack, and a third Input that failed after it
\* had allocated two more variables
C23_Witness ==
    /\ Len(stack) = 2
    /\ stack[1].type = "Contract" /\ stack[2].type = "Contract"
    /\ HandlesOf(stack[1]) = {0, 1}
    /\ HandlesOf(stack[2]) = {2, 3}
    /\ instr.op = "Input" /\ step_result = "FormatError"
    /\ Len(variable_commitments) = 6

\* The log holds an entry of a Nonce or of an Input
LogHasNonceOrInput == \E i \in 1..Len(txlog) : txlog[i].type \in {"Nonce", "Input"}

\* C24: the unique flag is false before the first step, a step never takes it
\* from true back to false, and in every state it is true exactly when the
\* log holds the entry of a Nonce or of an Input, that is when such an
\* instruction has succeeded.
C24_UniqueIffLogged ==
    /\ step_result = "None" => ~unique
    /\ prev.unique => unique
    /\ unique = LogHasNonceOrInput
    /\ (instr.op \in {"Nonce", "Input"} /\ step_result = "Continue") => unique
    /\ (unique /\ ~prev.unique)
       => (instr.op \in {"Nonce", "Input"} /\ step_result = "Continue")

\* The flag set by an Input stays set through a Nonce and a step that fails
C24_Witness ==
    /\ unique /\ prev.unique
    /\ Len(txlog) = 2 /\ txlog[1].type = "Input" /\ txlog[2].type = "Nonce"
    /\ step_result = "TypeNotCopyable"

\* C25: a Dup or Roll that fails, with StackUnderflow or TypeNotCopyable,
\* leaves the stack exactly as it was; a Drop that fails with TypeNotCopyable
\* had a Contract, Value or WideValue on top and has already taken it off:
\* the stack is what was below it, one item shorter.
C25_FailedStackOps ==
    /\ (instr.op \in {"Dup", "Roll"} /\ step_result \in {"StackUnderflow", "TypeNotCopyable"})
       => stack = prev.stack
    /\ (instr.op = "Roll" /\ step_result # "Continue") => step_result = "StackUnderflow"
    /\ (instr.op = "Drop" /\ step_result = "TypeNotCopyable")
       => /\ PrevDepth > 0
          /\ PrevTop.type \in Linear
          /\ stack = PrevBelow
          /\ Len(stack) = PrevDepth - 1
    /\ (instr.op = "Drop" /\ step_result = "StackUnderflow") => stack = prev.stack

\* A Drop that failed on a Value has left only the item that was below it
C25_Witness ==
    /\ instr.op = "Drop" /\ step_result = "TypeNotCopyable"
    /\ PrevDepth = 2 /\ PrevTop.type = "Value"
    /\ stack = <<prev.stack[1]>>

\* A Dup that failed on a Contract below the top has left the stack as it was
C25_DupFailed ==
    /\ instr.op = "Dup" /\ instr.a = 1 /\ step_result = "TypeNotCopyable"
    /\ PrevDepth = 3 /\ PrevAt(1).type = "Contract"
    /\ stack = prev.stack

====
